---------------------------- MODULE Spec2Model ----------------------------
(***************************************************************************)
(* Collaboration-graph builder, edge-file loader and path query of the    *)
(* arxiv-api repository (src/arxiv_api/clients/graph_client.py and the    *)
(* scripts that drive it).                                                 *)
(*                                                                         *)
(* The external publication source and the contents of the csv folder are  *)
(* the environment: what they hand to the program is chosen when the       *)
(* program reads it.  A networkx Graph is its node set and its adjacency   *)
(* mapping; the iteration order of the dictionaries is left open.          *)
(***************************************************************************)
EXTENDS Integers, Sequences, FiniteSets, TLC

----------------------------------------------------------------------------
(* Bounds of the model *)

\* largest max_depth typed at the prompt
MaxDepth == 2
\* largest number of publications one query returns
MaxPubs == 1
\* largest number of names in the author list of one publication
MaxCoauthors == 2
\* the source returns no publication that would make the queue longer
MaxQueue == 2

\* largest number of entries os.listdir returns
MaxFiles == 2
\* largest number of rows after the first in one file
MaxRows == 2
\* largest number of fields in one row
MaxFields == 3

\* author names known to the publication source
Authors == {"A", "B", "C", "D"}

\* every string that can become a node of a graph
Names == Authors

\* sequences over S of length at most n
RECURSIVE SeqUpTo(_, _)
SeqUpTo(S, n) ==
    IF n = 0 THEN {<<>>}
    ELSE LET shorter == SeqUpTo(S, n - 1)
         IN  shorter \cup {Append(s, x) : s \in {t \in shorter : Len(t) = n - 1}, x \in S}

----------------------------------------------------------------------------
(* networkx.Graph as the program uses it *)

\* G = nx.Graph()
nx_Graph == [node |-> {}, adj |-> [n \in Names |-> {}]]

has_node(g, n) == n \in g.node

add_node(g, n) == [g EXCEPT !.node = @ \cup {n}]

\* a directed graph keeps the edge under its first endpoint only
add_edge_directed(g, u, v) ==
    [node |-> g.node \cup {u, v},
     adj  |-> [g.adj EXCEPT ![u] = @ \cup {v}]]

\* G.add_edge(u, v): both endpoints become nodes, each is the other's neighbour
add_edge(g, u, v) ==
    [node |-> g.node \cup {u, v},
     adj  |-> [n \in Names |->
                 IF n = u /\ n = v THEN g.adj[n] \cup {n}
                 ELSE IF n = u THEN g.adj[n] \cup {v}
                 ELSE IF n = v THEN g.adj[n] \cup {u}
                 ELSE g.adj[n]]]

\* the unordered pairs {u, v} that are edges (a self-loop is the pair {u})
edge_set(g) ==
    {e \in {{u, v} : u \in Names, v \in Names} :
        \E u \in e : \E v \in e : e = {u, v} /\ v \in g.adj[u]}

\* sum of f over the finite set S
RECURSIVE SumOver(_, _)
SumOver(S, f) ==
    IF S = {} THEN 0
    ELSE LET x == CHOOSE y \in S : TRUE IN f[x] + SumOver(S \ {x}, f)

\* G.degree: the neighbours of n, a self-loop counted twice
degree(g) == [n \in Names |-> Cardinality(g.adj[n]) + (IF n \in g.adj[n] THEN 1 ELSE 0)]

\* G.number_of_nodes(), G.number_of_edges(): half the sum of the degrees
number_of_nodes(g) == Cardinality(g.node)
number_of_edges(g) == SumOver(Names, degree(g)) \div 2

\* G.nodes(): the nodes once each, in the order of the node dictionary.  The
\* model keeps no insertion order, so every order is possible.
G_nodes(g) ==
    {p \in SeqUpTo(g.node, Cardinality(g.node)) :
        /\ Len(p) = Cardinality(g.node)
        /\ \A i \in 1 .. Len(p) : \A j \in 1 .. Len(p) : i /= j => p[i] /= p[j]}

\* <<n, v>> for the names v of the sequence `others` that are adjacent to n
RECURSIVE pairs_from(_, _, _)
pairs_from(g, n, others) ==
    IF others = << >> THEN << >>
    ELSE (IF Head(others) \in g.adj[n] THEN << <<n, Head(others)>> >> ELSE << >>)
         \o pairs_from(g, n, Tail(others))

\* the adjacency of every node in full, without the `seen` set of G.edges()
RECURSIVE adjacency_pairs(_, _, _)
adjacency_pairs(g, todo, order) ==
    IF todo = << >> THEN << >>
    ELSE pairs_from(g, Head(todo), order) \o adjacency_pairs(g, Tail(todo), order)

\* G.edges() stopping after the first node
G_edges_first_node_only(g, order) ==
    IF order = << >> THEN << >> ELSE pairs_from(g, Head(order), order)

\* G.edges() reporting every edge from both of its ends
G_edges_from_both_ends(g, order) == adjacency_pairs(g, order, order)

\* G.edges() for the node order `order`: node by node, the pairs <<n, v>> for
\* the neighbours v of n that did not come before n; the neighbours are
\* taken in the node order
RECURSIVE G_edges(_, _)
G_edges(g, order) ==
    IF order = << >> THEN << >>
    ELSE pairs_from(g, Head(order), order) \o G_edges(g, Tail(order))

----------------------------------------------------------------------------
(* The publication source (ArxivClient.search_arxiv_publications).  The    *)
(* name is transliterated (unidecode) for the query string only; the graph *)
(* keeps the name as given, and the answer is the environment's choice.    *)

\* the stub of the specification's worked example: A -> [pub with B, C],
\* B -> [pub with A, D], every other author -> []
Stub == [a \in Authors |->
           IF a = "A" THEN << <<"B", "C">> >>
           ELSE IF a = "B" THEN << <<"A", "D">> >>
           ELSE << >>]

\* "any": an unconstrained source; "stub": the source above
SourceKinds == {"any", "stub"}

\* the lengths len(results) can have for a query of author a
ResultCounts(src, a) ==
    IF src = "stub" THEN {Len(Stub[a])} ELSE 0 .. MaxPubs

\* whether the query can fail: arxiv.Client().results raises on a transport
\* or parse error, and nothing in search_arxiv_publications catches it
CanRaise(src) == src = "any"

\* the author lists the k-th returned publication can have; an unconstrained
\* source lists at most `room` names
get_coauthors(src, a, k, room) ==
    IF src = "stub" THEN {Stub[a][k]}
    ELSE {p \in SeqUpTo(Authors, MaxCoauthors) : Len(p) <= room}

----------------------------------------------------------------------------
(* The csv folder (os.listdir, open, csv.reader) *)

\* a file name is <<stem, suffix>>
FileNames == {<<"a", ".csv">>, <<"b", ".csv">>, <<"notes", ".txt">>}

\* line 246 without the suffix test: every entry of the folder is read
endswith_anything(filename, suffix) == TRUE

\* filename.endswith(suffix)
endswith(filename, suffix) == filename[2] = suffix

\* what os.listdir can return: the names of at most MaxFiles different files
Listings ==
    {l \in SeqUpTo(FileNames, MaxFiles) :
        \A i \in 1 .. Len(l) : \A j \in 1 .. Len(l) : i /= j => l[i] /= l[j]}

\* what csv.reader can yield for one line: a list of fields, [] for a blank
\* line.  The loader reads the fields of a row of two fields only, so one row
\* stands for all the rows of each other length.
Rows ==
    {r \in SeqUpTo(Names, MaxFields) :
        Len(r) = 2 \/ \A i \in 1 .. Len(r) : r[i] = "A"}

\* what the first row of a file can be: the header save_edges_to_csv writes,
\* a row of two names, a blank line
FirstRows == {<<"Author1", "Author2">>, <<"A", "B">>, << >>}

\* the entry of the folder for the file save_edges_to_csv has written
SavedFileName == <<"collaboration_network", ".csv">>

\* names typed at the prompts of the finder; "a" is in no file
QueryNames == Names \cup {"a"}

----------------------------------------------------------------------------
(* nx.shortest_path(G, source, target), breadth first from the source *)

\* the nodes reached from s in at most k hops
RECURSIVE reached(_, _, _)
reached(g, s, k) ==
    IF k = 0 THEN {s}
    ELSE LET before == reached(g, s, k - 1)
         IN  before \cup UNION {g.adj[u] : u \in before}

\* the nodes first reached after exactly k hops
level(g, s, k) ==
    IF k = 0 THEN {s} ELSE reached(g, s, k) \ reached(g, s, k - 1)

\* the paths from s to t, a node of level k, that follow the predecessors:
\* the predecessor of a node is a node of the level before that lists it
RECURSIVE predecessor_paths(_, _, _, _)
predecessor_paths(g, s, t, k) ==
    IF k = 0 THEN {<<s>>}
    ELSE UNION {{Append(p, t) : p \in predecessor_paths(g, s, u, k - 1)} :
                   u \in {w \in level(g, s, k - 1) : t \in g.adj[w]}}

\* nx.shortest_path raises NodeNotFound for an endpoint that is no node
raises_NodeNotFound(g, s, t) == ~has_node(g, s) \/ ~has_node(g, t)

\* the paths the search can return (which one depends on the iteration order
\* of the adjacency); the empty set stands for raising NetworkXNoPath
shortest_path(g, s, t) ==
    LET n == Cardinality(Names)
        ks == {k \in 0 .. n : t \in level(g, s, k)}
    IN  IF ks = {} THEN {}
        ELSE predecessor_paths(g, s, t, CHOOSE k \in ks : TRUE)

----------------------------------------------------------------------------
VARIABLES
    pc,                 \* where the running script is
    start_author,       \* build_collaboration_network's arguments
    max_depth,
    source,             \* which publication source answers the queries
    G,                  \* the graph being built, loaded or queried
    processed_authors,
    queue,              \* deque of <<author, depth>>
    current_author,
    depth,
    results,            \* publications of the current query not yet iterated
    nresults,           \* len(results) of the current query
    coauthors,          \* names of the current publication not yet iterated
    queried,            \* history: queries issued to the source, per author
    dequeued_below,     \* history: the authors of the records dequeued with a
                        \* depth below max_depth
    exc,                \* the exception in flight, or "none"
    last_pair,           \* history: the pair of names the last step handled,
                        \* <<u, v, adjacent before>>, or << >>
    listing,            \* entries of os.listdir not yet iterated
    rows_read,          \* rows read from the open file after its first
    author1,            \* the names typed at the finder's prompts
    author2,
    out,                \* what find_connection printed
    pairs_read,         \* history: the unordered pairs of the rows of two
                        \* fields read so far, from all the files
    malformed,          \* history: rows of the open file read so far whose
                        \* number of fields is not two
    csv_listed,         \* history: os.listdir returned a name ending in .csv
    csv_file,           \* the rows written by save_edges_to_csv, << >> before
    sigma_json,         \* the data dumped by save_edges_to_sigma_json
    G_saved,            \* history: the graph the two files were saved from
    folder,             \* what the csv folder holds: "any", files whose rows
                        \* are chosen as they are read, or "saved", the one
                        \* file save_edges_to_csv has written
    reader,             \* rows of the open saved file not yet read
    header              \* <<row>> for the row next(reader) took from the
                        \* open file, << >> while no file is open

vars == <<pc, start_author, max_depth, source, G, processed_authors, queue,
          current_author, depth, results, nresults, coauthors, queried,
          dequeued_below, exc, last_pair, listing, rows_read, author1, author2, out, pairs_read,
          malformed, csv_listed, csv_file, sigma_json, G_saved, folder,
          reader, header>>

build_vars == <<start_author, max_depth, source>>

build_locals == <<processed_authors, queue, current_author, depth, results,
                  nresults, coauthors, queried, dequeued_below>>

saved_files == <<csv_file, sigma_json, G_saved>>

file_vars == <<folder, reader, header>>

load_history == <<pairs_read, malformed, csv_listed>>

finder_vars == <<listing, rows_read, author1, author2, out, load_history,
                 file_vars>>

\* nothing dumped yet
NoData == [nodes |-> << >>, edges |-> << >>]

\* nothing printed yet
NoOutput == [kind |-> "none", author |-> "", path |-> << >>, degrees |-> 0]

Init ==
    /\ pc = "idle"
    /\ start_author = "A"
    /\ max_depth = 0
    /\ source = "any"
    /\ G = nx_Graph
    /\ processed_authors = {}
    /\ queue = << >>
    /\ current_author = "A"
    /\ depth = 0
    /\ results = 0
    /\ nresults = 0
    /\ coauthors = << >>
    /\ queried = [a \in Authors |-> 0]
    /\ dequeued_below = {}
    /\ exc = "none"
    /\ last_pair = << >>
    /\ listing = << >>
    /\ rows_read = 0
    /\ author1 = ""
    /\ author2 = ""
    /\ out = NoOutput
    /\ pairs_read = {}
    /\ malformed = 0
    /\ csv_listed = FALSE
    /\ csv_file = << >>
    /\ sigma_json = NoData
    /\ G_saved = nx_Graph
    /\ folder = "any"
    /\ reader = << >>
    /\ header = << >>

----------------------------------------------------------------------------
(* GraphClient.build_collaboration_network *)

\* line 62, without the test: every record is processed
is_processed_never(a, done) == FALSE

\* line 62: if current_author in processed_authors
is_processed(a, done) == a \in done

\* line 71 without the test: every author is expanded
depth_limit_ignored(d, md) == FALSE

\* line 71 with > for >=
depth_limit_reached_strict(d, md) == d > md

\* line 71: if depth >= max_depth
depth_limit_reached(d, md) == d >= md

\* line 83 without the test
is_other_author_always(c, a) == TRUE

\* line 83: if coauthor != current_author
is_other_author(c, a) == c /= a

\* line 86 with the test always failing: no co-author is enqueued
not_yet_processed_never(c, done) == FALSE

\* line 86 without the test: every co-author is enqueued
not_yet_processed_always(c, done) == TRUE

\* line 86: if coauthor not in processed_authors
not_yet_processed(c, done) == c \notin done

\* line 87 with appendleft for append
queue_appendleft(q, record) == <<record>> \o q

\* line 87: queue.append((coauthor, depth + 1))
queue_append(q, record) == Append(q, record)

\* main reads the author name and the depth, and build sets up G,
\* processed_authors and the queue
build_start ==
    /\ pc = "idle"
    /\ \E seed \in Authors, md \in 0 .. MaxDepth, src \in SourceKinds :
          /\ start_author' = seed
          /\ max_depth' = md
          /\ source' = src
          /\ queue' = << <<seed, 0>> >>
    /\ G' = nx_Graph
    /\ processed_authors' = {}
    /\ dequeued_below' = {}
    /\ pc' = "while"
    /\ UNCHANGED <<current_author, depth, results, nresults, coauthors, queried,
                   exc, finder_vars, saved_files>>
    /\ last_pair' = << >>

\* while queue: ... return G
build_return ==
    /\ pc = "while"
    /\ queue = << >>
    /\ pc' = "returned"
    /\ UNCHANGED <<build_vars, saved_files,
                   G, processed_authors, queue, current_author, depth,
                   results, nresults, coauthors, queried, exc, finder_vars,
                   dequeued_below>>
    /\ last_pair' = << >>

\* one pass of the loop body up to the query: popleft, the processed test,
\* the node, the depth test
build_popleft ==
    /\ pc = "while"
    /\ queue /= << >>
    /\ current_author' = Head(queue)[1]
    /\ depth' = Head(queue)[2]
    /\ queue' = Tail(queue)
    /\ dequeued_below' = IF depth' < max_depth
                         THEN dequeued_below \cup {current_author'}
                         ELSE dequeued_below
    /\ IF is_processed(current_author', processed_authors)
       THEN /\ pc' = "while"
            /\ UNCHANGED <<processed_authors, G>>
       ELSE /\ processed_authors' = processed_authors \cup {current_author'}
            /\ G' = IF ~has_node(G, current_author')
                    THEN add_node(G, current_author') ELSE G
            /\ pc' = IF depth_limit_reached(depth', max_depth)
                     THEN "while" ELSE "search"
    /\ UNCHANGED <<build_vars, saved_files,
                   results, nresults, coauthors, queried, exc,
                   finder_vars>>
    /\ last_pair' = << >>

\* results = ArxivClient.search_arxiv_publications(current_author), and the
\* test for an empty list; a failure of the source propagates out of build
build_search ==
    /\ pc = "search"
    /\ queried' = [queried EXCEPT ![current_author] = @ + 1]
    /\ \/ /\ CanRaise(source)
          /\ exc' = "SourceError"
          /\ pc' = "build_raised"
          /\ UNCHANGED <<results, nresults>>
       \/ /\ \E n \in ResultCounts(source, current_author) :
                /\ nresults' = n
                /\ results' = n
                /\ pc' = IF n = 0 THEN "while" ELSE "for_r"
          /\ exc' = exc
    /\ UNCHANGED <<build_vars, saved_files,
                   G, processed_authors, queue, current_author, depth,
                   coauthors, finder_vars,
                   dequeued_below>>
    /\ last_pair' = << >>

\* for r in results: coauthors = ArxivClient.get_coauthors(r)
build_for_r ==
    /\ pc = "for_r"
    /\ IF results = 0
       THEN /\ pc' = "while"
            /\ UNCHANGED <<results, coauthors>>
       ELSE /\ \E p \in get_coauthors(source, current_author,
                                      nresults - results + 1,
                                      MaxQueue - Len(queue)) :
                  coauthors' = p
            /\ results' = results - 1
            /\ pc' = "for_coauthor"
    /\ UNCHANGED <<build_vars, saved_files,
                   G, processed_authors, queue, current_author, depth,
                   nresults, queried, exc, finder_vars,
                   dequeued_below>>
    /\ last_pair' = << >>

\* for coauthor in coauthors: the edge and the new queue record
build_for_coauthor ==
    /\ pc = "for_coauthor"
    /\ IF coauthors = << >>
       THEN /\ pc' = "for_r"
            /\ last_pair' = << >>
            /\ UNCHANGED <<G, queue, coauthors>>
       ELSE LET coauthor == Head(coauthors) IN
            /\ coauthors' = Tail(coauthors)
            /\ last_pair' = <<current_author, coauthor,
                              coauthor \in G.adj[current_author]>>
            /\ IF is_other_author(coauthor, current_author)
               THEN /\ G' = add_edge(G, current_author, coauthor)
                    /\ queue' = IF not_yet_processed(coauthor, processed_authors)
                                THEN queue_append(queue, <<coauthor, depth + 1>>)
                                ELSE queue
               ELSE UNCHANGED <<G, queue>>
            /\ pc' = "for_coauthor"
    /\ UNCHANGED <<build_vars, saved_files,
                   processed_authors, current_author, depth, results,
                   nresults, queried, exc, finder_vars,
                   dequeued_below>>

----------------------------------------------------------------------------
(* GraphClient.load_all_csv_edges *)

\* G = nx.Graph(); for filename in os.listdir(csv_folder): the folder is
\* listed once, and listing a folder that does not exist raises
load_listdir ==
    /\ pc = "idle"
    /\ G' = nx_Graph
    /\ \/ /\ exc' = "FileNotFoundError"
          /\ pc' = "load_raised"
          /\ UNCHANGED <<listing, csv_listed>>
       \/ /\ \E l \in Listings :
                /\ listing' = l
                /\ csv_listed' = (\E i \in 1 .. Len(l) : l[i][2] = ".csv")
          /\ pc' = "for_filename"
          /\ exc' = exc
    /\ UNCHANGED <<build_vars, saved_files,
                   build_locals, rows_read, author1, author2, out,
                   pairs_read, malformed, file_vars>>
    /\ last_pair' = << >>

\* the same lines in a run of the finder after graph-generator.py has saved
\* its graph, on a folder that holds the saved file and nothing else
load_listdir_saved ==
    /\ pc = "saved"
    /\ G' = nx_Graph
    /\ listing' = <<SavedFileName>>
    /\ csv_listed' = TRUE
    /\ folder' = "saved"
    /\ pc' = "for_filename"
    /\ UNCHANGED <<build_vars, saved_files,
                   build_locals, exc, rows_read, author1, author2, out,
                   pairs_read, malformed, reader, header>>
    /\ last_pair' = << >>

\* opening a file of the folder and next(reader): the row taken and the rows
\* left, <<row, rows>>; the empty set when the file has no row and
\* next(reader) raises.  The rows of a file of the folder "any" are chosen
\* when they are read.
next_reader(fld, file) ==
    IF fld = "saved"
    THEN (IF file = << >> THEN {} ELSE {<<Head(file), Tail(file)>>})
    ELSE {<<r, << >> >> : r \in FirstRows}

\* whether the open file can have no row: no saved file has none
can_be_empty(fld, file) == fld = "any" \/ file = << >>

\* lines 246-252 with G = nx.Graph() of line 243 moved into the loop: every
\* file starts a new graph
load_for_filename_new_graph ==
    /\ pc = "for_filename"
    /\ IF listing = << >>
       THEN /\ pc' = "loaded"
            /\ UNCHANGED <<listing, rows_read, exc, G, reader, header>>
       ELSE /\ listing' = Tail(listing)
            /\ IF endswith(Head(listing), ".csv")
               THEN /\ G' = nx_Graph
                    /\ \/ /\ can_be_empty(folder, csv_file)
                          /\ exc' = "StopIteration"
                          /\ pc' = "load_raised"
                          /\ UNCHANGED <<rows_read, reader, header>>
                       \/ /\ \E first \in next_reader(folder, csv_file) :
                                /\ header' = <<first[1]>>
                                /\ reader' = first[2]
                          /\ rows_read' = 0
                          /\ pc' = "for_row"
                          /\ exc' = exc
               ELSE /\ pc' = "for_filename"
                    /\ UNCHANGED <<rows_read, exc, G, reader, header>>
    /\ UNCHANGED <<build_vars, saved_files,
                   build_locals, author1, author2, out,
                   load_history, folder>>
    /\ last_pair' = << >>

\* lines 246-256 without next(reader) of line 252: the first row of the file
\* is handled like every other row
load_for_filename_no_header ==
    /\ pc = "for_filename"
    /\ IF listing = << >>
       THEN /\ pc' = "loaded"
            /\ UNCHANGED <<listing, rows_read, exc, G, reader, header>>
       ELSE /\ listing' = Tail(listing)
            /\ IF endswith(Head(listing), ".csv")
               THEN \/ /\ can_be_empty(folder, csv_file)
                       /\ pc' = "for_filename"
                       /\ UNCHANGED <<rows_read, reader, header, G, exc>>
                    \/ /\ \E first \in next_reader(folder, csv_file) :
                             /\ header' = <<first[1]>>
                             /\ reader' = first[2]
                             /\ G' = IF Len(first[1]) = 2
                                     THEN add_edge(G, first[1][1], first[1][2])
                                     ELSE G
                       /\ rows_read' = 0
                       /\ pc' = "for_row"
                       /\ exc' = exc
               ELSE /\ pc' = "for_filename"
                    /\ UNCHANGED <<rows_read, exc, G, reader, header>>
    /\ UNCHANGED <<build_vars, saved_files,
                   build_locals, author1, author2, out,
                   load_history, folder>>
    /\ last_pair' = << >>

\* one entry of the folder: the suffix test, open, csv.reader and next(reader),
\* which raises StopIteration on a file without rows; after the last entry the
\* totals are printed and G is returned
load_for_filename ==
    /\ pc = "for_filename"
    /\ IF listing = << >>
       THEN /\ pc' = "loaded"
            /\ UNCHANGED <<listing, rows_read, exc, reader, header>>
       ELSE /\ listing' = Tail(listing)
            /\ IF endswith(Head(listing), ".csv")
               THEN \/ /\ can_be_empty(folder, csv_file)
                       /\ exc' = "StopIteration"
                       /\ pc' = "load_raised"
                       /\ UNCHANGED <<rows_read, reader, header>>
                    \/ /\ \E first \in next_reader(folder, csv_file) :
                             /\ header' = <<first[1]>>
                             /\ reader' = first[2]
                       /\ rows_read' = 0
                       /\ pc' = "for_row"
                       /\ exc' = exc
               ELSE /\ pc' = "for_filename"
                    /\ UNCHANGED <<rows_read, exc, reader, header>>
    /\ UNCHANGED <<build_vars, saved_files,
                   build_locals, G, author1, author2, out,
                   load_history, folder>>
    /\ last_pair' = << >>

\* line 255 with >= for ==
is_edge_row_at_least(row) == Len(row) >= 2

\* line 255: if len(row) == 2
is_edge_row(row) == Len(row) = 2

\* the rows the reader can yield next: the next row of the saved file, or
\* any row while fewer than MaxRows were read
rows_of_reader(fld, rest, n) ==
    IF fld = "saved"
    THEN (IF rest = << >> THEN {} ELSE {Head(rest)})
    ELSE (IF n < MaxRows THEN Rows ELSE {})

\* for row in reader: if len(row) == 2: G.add_edge(row[0], row[1])
load_for_row ==
    /\ pc = "for_row"
    /\ \/ /\ can_be_empty(folder, reader)
          /\ pc' = "for_filename"
          /\ rows_read' = 0
          /\ malformed' = 0
          /\ header' = << >>
          /\ last_pair' = << >>
          /\ UNCHANGED <<G, pairs_read, reader>>
       \/ /\ rows_read' = rows_read + 1
          /\ reader' = IF reader = << >> THEN reader ELSE Tail(reader)
          /\ \E row \in rows_of_reader(folder, reader, rows_read) :
                /\ IF is_edge_row(row)
                   THEN /\ G' = add_edge(G, row[1], row[2])
                        /\ last_pair' =
                              <<row[1], row[2], row[2] \in G.adj[row[1]]>>
                   ELSE G' = G /\ last_pair' = << >>
                /\ IF Len(row) = 2
                   THEN /\ pairs_read' = pairs_read \cup {{row[1], row[2]}}
                        /\ UNCHANGED malformed
                   ELSE /\ malformed' = malformed + 1
                        /\ UNCHANGED pairs_read
          /\ pc' = "for_row"
          /\ UNCHANGED header
    /\ UNCHANGED <<build_vars, saved_files,
                   build_locals, exc, listing, author1, author2, out,
                   csv_listed, folder>>

----------------------------------------------------------------------------
(* graph-generator.py main, around build_collaboration_network *)

\* what can be typed at the depth prompt: the digits of a depth, or a text
\* that is no integer
DepthInputs == {<<"digits", n>> : n \in 0 .. MaxDepth} \cup {<<"text", 0>>}

\* int(text) raises ValueError
int_raises(text) == text[1] /= "digits"

\* max_depth = int(input(...)), before the try block: a text that is no
\* integer raises ValueError
main_prompt_raises ==
    /\ pc = "idle"
    /\ \E text \in DepthInputs : int_raises(text)
    /\ exc' = "ValueError"
    /\ pc' = "prompt_raised"
    /\ UNCHANGED <<build_vars, saved_files,
                   build_locals, G, finder_vars>>
    /\ last_pair' = << >>

\* one record of "edges" in the sigma data
sigma_edge(u, v) == [id |-> <<u, "_", v>>, source |-> u, target |-> v]

\* after build returned: the statistics are printed, then save_edges_to_csv
\* writes the header and one row for each pair of G.edges(), and
\* save_edges_to_sigma_json dumps the nodes and the edges
main_save ==
    /\ pc = "returned"
    /\ \E order \in G_nodes(G) :
          LET edges == G_edges(G, order) IN
          /\ csv_file' = << <<"Author1", "Author2">> >> \o edges
          /\ G_saved' = G
          /\ sigma_json' =
                [nodes |-> [i \in 1 .. Len(order) |->
                               [id |-> order[i], label |-> order[i]]],
                 edges |-> [i \in 1 .. Len(edges) |->
                               sigma_edge(edges[i][1], edges[i][2])]]
    /\ pc' = "saved"
    /\ UNCHANGED <<build_vars, build_locals, G, exc, finder_vars>>
    /\ last_pair' = << >>

\* except Exception as e: print(f"An error occurred: {e}")
main_except ==
    /\ pc = "build_raised"
    /\ out' = [kind |-> "An error occurred", author |-> "", path |-> << >>,
               degrees |-> 0]
    /\ pc' = "error_printed"
    /\ UNCHANGED <<build_vars, saved_files,
                   build_locals, G, exc, listing,
                   rows_read, author1, author2, load_history, file_vars>>
    /\ last_pair' = << >>

----------------------------------------------------------------------------
(* GraphClient.find_connection *)

\* line 298 without the - 1
degrees_of_separation_nodes(path) == Len(path)

\* line 298: len(path) - 1
degrees_of_separation(path) == Len(path) - 1

\* lines 282-288 with the two tests in the other order
find_connection_author2_first(g, a1, a2) ==
    IF ~has_node(g, a2)
    THEN {[kind |-> "NotFound", author |-> a2, path |-> << >>, degrees |-> 0]}
    ELSE IF ~has_node(g, a1)
    THEN {[kind |-> "NotFound", author |-> a1, path |-> << >>, degrees |-> 0]}
    ELSE IF raises_NodeNotFound(g, a1, a2)
    THEN {[kind |-> "NodeNotFound", author |-> "", path |-> << >>, degrees |-> 0]}
    ELSE LET paths == shortest_path(g, a1, a2)
         IN  IF paths = {}
             THEN {[kind |-> "NoPath", author |-> "", path |-> << >>, degrees |-> 0]}
             ELSE {[kind |-> "Path", author |-> "", path |-> p,
                    degrees |-> Len(p) - 1] : p \in paths}

\* lines 290-300 with the search stopping at the neighbours of author1
find_connection_neighbours_only(g, a1, a2) ==
    IF ~has_node(g, a1)
    THEN {[kind |-> "NotFound", author |-> a1, path |-> << >>, degrees |-> 0]}
    ELSE IF ~has_node(g, a2)
    THEN {[kind |-> "NotFound", author |-> a2, path |-> << >>, degrees |-> 0]}
    ELSE LET paths == {p \in shortest_path(g, a1, a2) : Len(p) <= 2}
         IN  IF paths = {}
             THEN {[kind |-> "NoPath", author |-> "", path |-> << >>, degrees |-> 0]}
             ELSE {[kind |-> "Path", author |-> "", path |-> p,
                    degrees |-> Len(p) - 1] : p \in paths}

\* what find_connection(G, author1, author2) can print: one of the messages,
\* or, as kind "NodeNotFound", the exception it lets through
find_connection(g, a1, a2) ==
    IF ~has_node(g, a1)
    THEN {[kind |-> "NotFound", author |-> a1, path |-> << >>, degrees |-> 0]}
    ELSE IF ~has_node(g, a2)
    THEN {[kind |-> "NotFound", author |-> a2, path |-> << >>, degrees |-> 0]}
    ELSE IF raises_NodeNotFound(g, a1, a2)
    THEN {[kind |-> "NodeNotFound", author |-> "", path |-> << >>, degrees |-> 0]}
    ELSE LET paths == shortest_path(g, a1, a2)
         IN  IF paths = {}
             THEN {[kind |-> "NoPath", author |-> "", path |-> << >>, degrees |-> 0]}
             ELSE {[kind |-> "Path", author |-> "", path |-> p,
                    degrees |-> degrees_of_separation(p)] : p \in paths}

\* the finder's main after load_all_csv_edges: the two prompts and the query
main_find ==
    /\ pc = "loaded"
    /\ \E a1 \in QueryNames, a2 \in QueryNames :
          /\ author1' = a1
          /\ author2' = a2
          /\ out' \in find_connection(G, a1, a2)
    /\ pc' = "done"
    /\ UNCHANGED <<build_vars, saved_files,
                   build_locals, G, exc, listing, rows_read,
                   load_history, file_vars>>
    /\ last_pair' = << >>

Next ==
    \/ build_start
    \/ build_return
    \/ build_popleft
    \/ build_search
    \/ build_for_r
    \/ build_for_coauthor
    \/ main_prompt_raises
    \/ main_save
    \/ main_except
    \/ load_listdir
    \/ load_for_filename
    \/ load_for_row
    \/ main_find

Spec == Init /\ [][Next]_vars

\* The generator followed by the finder: build, the two saves, and
\* load_all_csv_edges on the folder with the saved file, or on any folder.
RoundTripNext ==
    \/ build_start
    \/ build_return
    \/ build_popleft
    \/ build_search
    \/ build_for_r
    \/ build_for_coauthor
    \/ main_save
    \/ load_listdir
    \/ load_listdir_saved
    \/ load_for_filename
    \/ load_for_row

RoundTripSpec == Init /\ [][RoundTripNext]_vars

\* build_collaboration_network alone.  The script is one thread that runs one
\* statement after the other, so a step of build that can be taken is taken.
BuildNext ==
    \/ build_start
    \/ build_return
    \/ build_popleft
    \/ build_search
    \/ build_for_r
    \/ build_for_coauthor

BuildSpec == Init /\ [][BuildNext]_vars /\ WF_vars(BuildNext)

----------------------------------------------------------------------------
(* Properties *)

\* build_collaboration_network is running or has ended
building == pc \in {"while", "search", "for_r", "for_coauthor", "returned", "build_raised"}

\* C1: in a run of build_collaboration_network the publication source is
\* queried at most once for each author name, whatever the source returns
\* (cycles, an author enqueued several times before it is dequeued).
C1_QueriedAtMostOnce == \A a \in Authors : queried[a] <= 1

\* two authors that list each other have both been queried, and a second
\* record of an author already queried is at the head of the queue
C1_Witness ==
    /\ pc = "while"
    /\ queue /= << >>
    /\ queried[Head(queue)[1]] = 1
    /\ \E a \in Authors : /\ a /= current_author
                          /\ queried[a] = 1
                          /\ queried[current_author] = 1
                          /\ a \in G.adj[current_author]

\* C2 (as claimed): a failed query is treated as "no publications" and the
\* traversal continues, so build never ends while a record is still queued
\* and never ends by raising.
C2_FailedQueryContinues ==
    pc \in {"returned", "build_raised"} => (pc = "returned" /\ queue = << >>)

\* C3: build(seed, 0) issues no query and returns the graph whose only node is
\* the seed, with no edge.
C3_DepthZero ==
    (building /\ max_depth = 0) =>
        /\ \A a \in Authors : queried[a] = 0
        /\ pc = "returned" =>
              /\ G.node = {start_author}
              /\ edge_set(G) = {}
              /\ number_of_nodes(G) = 1
              /\ number_of_edges(G) = 0

C3_Witness == pc = "returned" /\ max_depth = 0 /\ source = "any"

\* C4: no author dequeued at depth >= max_depth is queried; with the stub
\* source A -> [B, C], B -> [A, D], build("A", 1) returns nodes {A, B, C} and
\* edges {A-B, A-C}, and D is never a node.
C4_LeafNotExpanded ==
    /\ pc = "search" => depth < max_depth
    /\ (building /\ source = "stub" /\ start_author = "A" /\ max_depth = 1) =>
          /\ "D" \notin G.node
          /\ pc = "returned" =>
                /\ G.node = {"A", "B", "C"}
                /\ edge_set(G) = {{"A", "B"}, {"A", "C"}}

C4_Witness ==
    /\ pc = "returned" /\ source = "stub" /\ start_author = "A" /\ max_depth = 1
    /\ processed_authors = {"A", "B", "C"}
    /\ queried = [a \in Authors |-> IF a = "A" THEN 1 ELSE 0]

\* C5: no state of build has an edge from an author to itself, also when a
\* publication of the author lists the author, once or several times.
C5_NoSelfEdgeInBuild == building => \A a \in Names : a \notin G.adj[a]

\* the author's own name has been passed over once and comes again
C5_Witness ==
    /\ pc = "for_coauthor"
    /\ last_pair = <<current_author, current_author, FALSE>>
    /\ coauthors /= << >>
    /\ Head(coauthors) = current_author

\* C6 (as claimed): a graph returned by load_all_csv_edges has no self-loop.
C6_LoadedGraphNoSelfLoop ==
    pc = "loaded" => \A a \in Names : a \notin G.adj[a]

\* C7: in every state of build and of load_all_csv_edges the adjacency is
\* symmetric and relates nodes only, and the graph counts one edge for each
\* unordered pair of adjacent names, however often and in whichever order
\* the pair was added.
C7_SymmetricOneEdgePerPair ==
    /\ \A u \in Names : \A v \in Names : (v \in G.adj[u]) <=> (u \in G.adj[v])
    /\ \A u \in Names : G.adj[u] /= {} => (u \in G.node /\ G.adj[u] \subseteq G.node)
    /\ number_of_edges(G) = Cardinality(edge_set(G))

\* B adds the edge to A that A added to B before
C7_Witness ==
    /\ source = "stub" /\ start_author = "A"
    /\ last_pair = <<"B", "A", TRUE>>
    /\ edge_set(G) = {{"A", "B"}, {"A", "C"}}

\* C8 (as claimed): build returns the graph without nodes and edges when the
\* query for the starting author returns no publication.
C8_EmptyGraphWithoutPublications ==
    ( /\ pc = "returned"
      /\ queried = [a \in Authors |-> IF a = start_author THEN 1 ELSE 0]
      /\ nresults = 0 ) =>
        (G.node = {} /\ edge_set(G) = {})

\* p is a walk of g: a sequence of nodes, each adjacent to the next
IsWalk(g, p) ==
    /\ p /= << >>
    /\ \A i \in 1 .. Len(p) : p[i] \in g.node
    /\ \A i \in 1 .. Len(p) - 1 : p[i + 1] \in g.adj[p[i]]

\* the walks of g from node a with at most n nodes
RECURSIVE WalksFrom(_, _, _)
WalksFrom(g, a, n) ==
    IF n = 1 THEN {<<a>>}
    ELSE LET shorter == WalksFrom(g, a, n - 1)
         IN  shorter \cup
             UNION {{Append(p, v) : v \in g.adj[p[Len(p)]]} :
                       p \in {q \in shorter : Len(q) = n - 1}}

\* the walks of g from a to b with at most as many nodes as there are names
WalksBetween(g, a, b) ==
    {p \in WalksFrom(g, a, Cardinality(Names)) : p[Len(p)] = b /\ IsWalk(g, p)}

\* G is the chain A - B - C - D
IsChainABCD(g) ==
    /\ g.node = {"A", "B", "C", "D"}
    /\ edge_set(g) = {{"A", "B"}, {"B", "C"}, {"C", "D"}}

\* C9: for two connected nodes find_connection prints a walk from author1 to
\* author2 with the fewest edges, and its number of edges as the degrees of
\* separation; for author1 = author2 the walk is [author1] with 0 degrees;
\* on the chain A - B - C - D the query (A, D) prints [A, B, C, D] and 3.
C9_ShortestPath ==
    (pc = "done" /\ author1 \in G.node /\ author2 \in G.node) =>
        LET walks == WalksBetween(G, author1, author2) IN
        walks /= {} =>
            /\ out.kind = "Path"
            /\ out.path \in walks
            /\ out.degrees = Len(out.path) - 1
            /\ \A q \in walks : out.degrees <= Len(q) - 1
            /\ author1 = author2 => (out.path = <<author1>> /\ out.degrees = 0)
            /\ (IsChainABCD(G) /\ author1 = "A" /\ author2 = "D") =>
                  (out.path = <<"A", "B", "C", "D">> /\ out.degrees = 3)

C9_Witness ==
    /\ pc = "done"
    /\ IsChainABCD(G)
    /\ author1 = "A" /\ author2 = "D"
    /\ out.path = <<"A", "B", "C", "D">>

\* C10: find_connection prints "not found" exactly when author1 or author2 is
\* no node of G (an exact comparison of the names), naming author1 when
\* author1 is missing and author2 otherwise; it lets no exception through.
C10_NotFound ==
    pc = "done" =>
        /\ out.kind \in {"NotFound", "NoPath", "Path"}
        /\ out.kind = "NotFound" <=> (author1 \notin G.node \/ author2 \notin G.node)
        /\ out.kind = "NotFound" =>
              out.author = (IF author1 \notin G.node THEN author1 ELSE author2)

\* both names are missing, the first only by its case
C10_Witness ==
    /\ pc = "done"
    /\ author1 = "a" /\ "A" \in G.node
    /\ author2 \in Names \ G.node
    /\ out.kind = "NotFound" /\ out.author = "a"

\* C11: find_connection prints "no connection" exactly when author1 and
\* author2 are both nodes of G and no walk of G joins them; it never prints
\* it when a walk exists and never prints a path when none exists.
C11_NoPathIffDisconnected ==
    pc = "done" =>
        LET walks == WalksBetween(G, author1, author2) IN
        /\ out.kind = "NoPath" <=>
              (author1 \in G.node /\ author2 \in G.node /\ walks = {})
        /\ out.kind = "Path" => out.path \in walks

\* A - B and C - D are two components; the query joins neither
C11_Witness ==
    /\ pc = "done"
    /\ edge_set(G) = {{"A", "B"}, {"C", "D"}}
    /\ author1 = "A" /\ author2 = "D"
    /\ out.kind = "NoPath"


\* load_all_csv_edges is running or has returned
loading == pc \in {"for_filename", "for_row", "loaded"}

\* C12: the graph load_all_csv_edges has built is the union of the pairs of
\* the rows read from all the files: a pair read from several files, several
\* times from one file or in both orders is one edge, and the graph is
\* determined by the set of pairs alone, whatever the order of the files and
\* of the rows.
C12_LoadIsSetUnion ==
    loading =>
        /\ edge_set(G) = pairs_read
        /\ number_of_edges(G) = Cardinality(pairs_read)
        /\ G.node = UNION pairs_read

\* the first row of a later file is B,A and the graph has the edge already
C12_Witness ==
    /\ pc = "for_row" /\ rows_read = 1
    /\ last_pair = <<"B", "A", TRUE>>
    /\ edge_set(G) = {{"A", "B"}}
    /\ number_of_edges(G) = 1

\* C13: a row whose number of fields is not two (three fields, one field, a
\* blank line) raises nothing and leaves the graph as it is; every other row
\* read, before or after it, adds its edge.
C13_MalformedRowSkipped ==
    [][ (pc = "for_row" /\ pc' = "for_row") =>
           /\ exc' = "none"
           /\ IF malformed' > malformed
              THEN G' = G
              ELSE /\ last_pair' /= << >>
                   /\ {last_pair'[1], last_pair'[2]} \in edge_set(G')
                   /\ edge_set(G) \subseteq edge_set(G')
                   /\ G.node \subseteq G'.node ]_vars

\* a new edge is added by the row that follows a skipped row of the same file
C13_Witness ==
    /\ pc = "for_row"
    /\ malformed = 1 /\ rows_read = 2
    /\ last_pair /= << >> /\ last_pair[3] = FALSE
    /\ exc = "none"

\* C14: when the folder has no entry, or no entry whose name ends in .csv,
\* load_all_csv_edges raises nothing and returns the graph without nodes and
\* edges.
C14_NoCsvFileEmptyGraph ==
    (pc \in {"for_filename", "for_row", "loaded", "load_raised"} /\ ~csv_listed) =>
        /\ pc = "load_raised" => exc = "FileNotFoundError"
        /\ pc /= "for_row"
        /\ G = nx_Graph
        /\ number_of_nodes(G) = 0 /\ number_of_edges(G) = 0

\* the folder was listed, no entry ended in .csv, and the loader returned
C14_Witness ==
    /\ pc = "loaded" /\ ~csv_listed /\ exc = "none"
    /\ G = nx_Graph
    /\ listing = << >>

\* C15 (as claimed): load_all_csv_edges returns an empty graph, and raises
\* nothing, when the folder does not exist.
C15_MissingFolderEmptyGraph ==
    ~(pc = "load_raised" /\ exc = "FileNotFoundError")

\* the records of `rows` whose two names are the pair e, in either order
records_of(rows, e) == {i \in 1 .. Len(rows) : {rows[i][1], rows[i][2]} = e}

\* rows has one record for each edge of g, in one orientation, and no other
one_record_per_edge(rows, g) ==
    /\ \A e \in edge_set(g) : Cardinality(records_of(rows, e)) = 1
    /\ \A i \in 1 .. Len(rows) : {rows[i][1], rows[i][2]} \in edge_set(g)
    /\ \A i \in 1 .. Len(rows) : rows[i][2] \in g.adj[rows[i][1]]
    /\ Len(rows) = number_of_edges(g)

\* C16: after the header the csv file has one row for each edge of G, in one
\* of its two orientations, and no row for a pair that is no edge; so has
\* "edges" of the sigma data, whose "nodes" are the nodes of G once each; a
\* node without edge is in no row.
C16_OneRecordPerEdge ==
    pc = "saved" =>
        /\ Head(csv_file) = <<"Author1", "Author2">>
        /\ one_record_per_edge(Tail(csv_file), G)
        /\ one_record_per_edge(
              [i \in 1 .. Len(sigma_json.edges) |->
                  <<sigma_json.edges[i].source, sigma_json.edges[i].target>>], G)
        /\ Len(sigma_json.nodes) = number_of_nodes(G)
        /\ {sigma_json.nodes[i].id : i \in 1 .. Len(sigma_json.nodes)} = G.node
        /\ \A n \in G.node : G.adj[n] = {} =>
              \A i \in 2 .. Len(csv_file) : n /= csv_file[i][1] /\ n /= csv_file[i][2]

\* the triangle A - B - C is saved in three rows
C16_Witness ==
    /\ pc = "saved"
    /\ edge_set(G) = {{"A", "B"}, {"A", "C"}, {"B", "C"}}
    /\ Len(csv_file) = 4
    /\ Len(sigma_json.edges) = 3

\* C17 (as claimed): every exception raised in an interactive run is caught
\* by the script's main and printed as one line; no run ends with an
\* exception that nothing caught.
C17_EveryFailureReported ==
    exc /= "none" => pc \in {"build_raised", "error_printed"}

\* C18: build that has started ends: it returns with the queue empty, or a
\* query has raised instead of returning; this for every max_depth from 0
\* and every source, cyclic ones included.  The queries issued are never more
\* than the different authors dequeued with a depth below max_depth.
C18_BuildTerminates ==
    /\ (pc = "while") ~> ((pc = "returned" /\ queue = << >>) \/ exc /= "none")
    /\ [](SumOver(Authors, queried) <= Cardinality(dequeued_below))

\* build has returned from a source in which A and B list each other
C18_Witness ==
    /\ pc = "returned" /\ queue = << >> /\ exc = "none"
    /\ max_depth = MaxDepth
    /\ queried["A"] = 1 /\ queried["B"] = 1
    /\ "B" \in G.adj["A"]
    /\ dequeued_below = {"A", "B"}

\* C19: when the loop over the co-authors of the expanded author X meets a
\* name c other than X, the edge X - c is in the graph afterwards, visited or
\* not; the record (c, depth + 1) is appended when c is not in
\* processed_authors and the queue is left as it is when c is in it; no step
\* appends a record of an author that is in processed_authors.
C19_EdgeAlwaysEnqueueUnvisited ==
    [][ /\ (pc = "for_coauthor" /\ coauthors /= << >>) =>
             LET c == Head(coauthors)
                 X == current_author
             IN  IF c /= X
                 THEN /\ c \in G'.adj[X] /\ X \in G'.adj[c]
                      /\ IF c \in processed_authors
                         THEN queue' = queue
                         ELSE queue' = Append(queue, <<c, depth + 1>>)
                 ELSE queue' = queue
        /\ Len(queue') > Len(queue) =>
             queue'[Len(queue')][1] \notin processed_authors ]_vars

\* the edge to a co-author that was visited before is new, and the queue has
\* no record of the co-author
C19_Witness ==
    /\ pc = "for_coauthor"
    /\ last_pair /= << >>
    /\ last_pair[1] = current_author /\ last_pair[2] /= current_author
    /\ last_pair[2] \in processed_authors
    /\ last_pair[3] = FALSE
    /\ last_pair[2] \in G.adj[current_author]
    /\ \A i \in 1 .. Len(queue) : queue[i][1] /= last_pair[2]

\* the depths of the records of q from its head to its end never decrease
depths_in_order(q) ==
    \A i \in 1 .. Len(q) : \A j \in 1 .. Len(q) : i < j => q[i][2] <= q[j][2]

\* C20: the queue holds its records in non-decreasing depth, none below the
\* depth of the record being processed; so when the first record of an author
\* is dequeued, the author is processed with that depth and no record of the
\* author left in the queue has a smaller one; a record of an author that was
\* processed is dequeued without a query and without a change of the graph.
C20_FirstRecordSmallestDepth ==
    /\ [](building =>
            /\ depths_in_order(queue)
            /\ (pc /= "while" \/ processed_authors /= {}) =>
                  \A i \in 1 .. Len(queue) : depth <= queue[i][2])
    /\ [][ (pc = "while" /\ queue /= << >>) =>
             LET a == Head(queue)[1]
                 d == Head(queue)[2]
             IN  IF a \in processed_authors
                 THEN /\ queried' = queried /\ G' = G /\ pc' = "while"
                      /\ processed_authors' = processed_authors
                 ELSE /\ a \in processed_authors'
                      /\ current_author' = a /\ depth' = d
                      /\ \A i \in 1 .. Len(queue') :
                            queue'[i][1] = a => d <= queue'[i][2] ]_vars

\* one author has two records with different depths in the queue
C20_Witness ==
    /\ pc = "while"
    /\ Len(queue) = 2
    /\ queue[1][1] = queue[2][1]
    /\ queue[1][2] < queue[2][2]
    /\ queue[1][1] \notin processed_authors

\* C22: when build returns, processed_authors is the node set of the graph:
\* every node and every end of an edge was dequeued and marked, and every
\* marked author is a node; a step that marks an author marks one author
\* that was not marked before.
C22_ProcessedIsNodeSet ==
    /\ [](pc = "returned" =>
            /\ processed_authors = G.node
            /\ UNION edge_set(G) \subseteq processed_authors)
    /\ [][ (building /\ pc' /= "idle" /\ processed_authors' /= processed_authors) =>
             \E a \in Authors \ processed_authors :
                /\ processed_authors' = processed_authors \cup {a}
                /\ a = current_author'
                /\ a \in G'.node ]_vars

\* the four authors are nodes and processed, two of them never queried
C22_Witness ==
    /\ pc = "returned"
    /\ G.node = Authors /\ processed_authors = Authors
    /\ Cardinality({a \in Authors : queried[a] = 0}) = 2

\* the nodes of g that a walk of at most n edges from a reaches
within_hops(g, a, n) == {p[Len(p)] : p \in {q \in WalksFrom(g, a, n + 1) : IsWalk(g, q)}}

\* C23: the graph build returns is connected, each of its nodes is within
\* max_depth edges of start_author, and each of its edges has an end that
\* was queried, that is processed with a depth below max_depth.
C23_ConnectedWithinDepth ==
    pc = "returned" =>
        /\ G.node = within_hops(G, start_author, max_depth)
        /\ \A a \in G.node : \A b \in G.node : WalksBetween(G, a, b) /= {}
        /\ \A e \in edge_set(G) : \E a \in e : queried[a] = 1 /\ a \in dequeued_below

\* the stub source to depth 2: D is two edges from A, and was not queried
C23_Witness ==
    /\ pc = "returned" /\ source = "stub" /\ start_author = "A" /\ max_depth = 2
    /\ "D" \in G.node /\ "D" \notin G.adj["A"] /\ "D" \in G.adj["B"]
    /\ queried["D"] = 0

\* C25 (as claimed): load_all_csv_edges raises nothing when a file ending in
\* .csv has no row at all; the file adds no edge and the other files are read.
C25_FileWithoutRowsSkipped ==
    pc = "load_raised" => exc /= "StopIteration"

\* C21: the step that opens a file takes its first row, whatever the row is,
\* and changes no node and no edge; in the saved file the row taken is the
\* header and every other row is left to the reader; every later row of two
\* fields adds its edge; the names Author1 and Author2 are no nodes of a graph
\* loaded from the saved file.
C21_FirstRowDiscarded ==
    /\ [][ pc = "for_filename" => (G' = G /\ pairs_read' = pairs_read) ]_vars
    /\ [][ (pc = "for_row" /\ pc' = "for_row" /\ malformed' = malformed) =>
             /\ last_pair' /= << >>
             /\ {last_pair'[1], last_pair'[2]} \in edge_set(G') ]_vars
    /\ [](pc = "for_row" =>
            /\ header /= << >>
            /\ edge_set(G) = pairs_read
            /\ folder = "saved" =>
                  /\ header = <<Head(csv_file)>>
                  /\ header = << <<"Author1", "Author2">> >>
                  /\ Len(reader) + rows_read + 1 = Len(csv_file))
    /\ [](folder = "saved" => ("Author1" \notin G.node /\ "Author2" \notin G.node))

\* the first row A,B of a file was taken as the header and made no edge; the
\* row C,D after it made one
C21_Witness ==
    /\ pc = "for_row" /\ folder = "any"
    /\ header = << <<"A", "B">> >>
    /\ rows_read = 1
    /\ last_pair = <<"C", "D", FALSE>>
    /\ edge_set(G) = {{"C", "D"}}

\* C24: load_all_csv_edges on the folder that holds only the file
\* save_edges_to_csv wrote for the graph build returned gives a graph with
\* the same edges, whose nodes are the nodes of the saved graph that have an
\* edge; the node of build(seed, 0), which has none, is not a node of it.
C24_RoundTrip ==
    (pc = "loaded" /\ folder = "saved") =>
        /\ exc = "none"
        /\ edge_set(G) = edge_set(G_saved)
        /\ G.adj = G_saved.adj
        /\ G.node = {n \in G_saved.node : G_saved.adj[n] /= {}}
        /\ number_of_edges(G) = number_of_edges(G_saved)
        /\ (max_depth = 0 => (G_saved.node = {start_author} /\ G.node = {}))

\* a saved graph of four authors and four edges has been loaded again
C24_Witness ==
    /\ pc = "loaded" /\ folder = "saved"
    /\ G_saved.node = Authors
    /\ number_of_edges(G_saved) = 4
    /\ G.node = Authors
    /\ Len(csv_file) = 5

============================================================================
